---- MODULE Spec2Model ----
(***************************************************************************)
(* ImprovedRandomGenerator of pattern-randomness.py: a rejection-sampling  *)
(* loop over a uniform source, four pattern checks against a bounded       *)
(* history, and the history update.                                        *)
(*                                                                         *)
(* Every generator instance g owns its history and its uniform source      *)
(* (self.random).  One Draw step is one iteration of the `while True` loop *)
(* of random_number.                                                       *)
(***************************************************************************)
EXTENDS Integers, Sequences, FiniteSets

VARIABLES
    history,    \* history[g]   : self.history, oldest first
    rng,        \* rng[g]       : draws g's self.random has produced so far
    pc,         \* pc[g]        : "idle" | "loop" | "returned" | "raised"
    start,      \* start[g]     : argument of the current (or last) call
    end,        \* end[g]       : argument of the current (or last) call
    candidate,  \* candidate[g] : the local of random_number
    draws,      \* draws[g]     : randint calls made by the current (or last) call
    result,     \* result[g]    : value returned by the last call that returned
    hist0,      \* hist0[g]     : history as it was when the current call began
    outputs,    \* outputs[g]   : the returned values, in order, each with the
                \*                history length it was evaluated against
    served,     \* served[g]    : calls made on g so far (scripted callers)
    seed,       \* the seed's draw stream (<<>>: unseeded, any draw may come)
    script      \* the caller's requests (<<>>: any request may come)

vars == <<history, rng, pc, start, end, candidate, draws, result, hist0,
          outputs, served, seed, script>>

----------------------------------------------------------------------------
(* Bounds of the model *)

\* outputs an unscripted caller asks of one generator
MaxCalls == 5
\* the draws counter of a call stops counting here
MaxDraws == 3

\* seeds of the seeded runs
NumSeeds == 3
\* calls of a seeded run, and draws its seed's stream holds
SeededCalls == 103
SeededDraws == 110

\* calls on each of the paired generators, and draws their seed's
\* stream holds
PairCalls == 4
PairDraws == 5

\* calls asked of a generator that is used with one small range only
FixedCalls == 7
\* calls asked of a generator that is used with one range [1, n] only
LiveCalls == 5

(* Program constants *)

max_history == 100
\* the factor 0.8 of is_random_enough, as ThresholdNum / ThresholdDen
ThresholdNum == 4
ThresholdDen == 5

\* requests of the unscripted caller: an ordinary range, a range with
\* zero and negative values, a single-value range, an empty range
Ranges == { <<1, 4>>, <<-1, 1>>, <<5, 5>>, <<3, 1>> }

----------------------------------------------------------------------------
(* Helpers *)

Min(a, b) == IF a < b THEN a ELSE b
Max(a, b) == IF a < b THEN b ELSE a
Abs(x) == IF x < 0 THEN -x ELSE x

RECURSIVE Pow(_, _)
Pow(b, k) == IF k = 0 THEN 1 ELSE b * Pow(b, k - 1)

Last(s) == s[Len(s)]

\* the last n elements of s (s[-n:])
LastN(s, n) == SubSeq(s, Len(s) - Min(n, Len(s)) + 1, Len(s))

----------------------------------------------------------------------------
(* The uniform source *)

\* self.random.randint(start, end) on the source's next raw draw: a value
\* of [start, end], every value of the range being some raw draw's image
\* variant: the offset start is forgotten
randint_unshifted(raw, s, e) == raw % (e - s + 1)

randint(raw, s, e) == s + (raw % (e - s + 1))

----------------------------------------------------------------------------
(* The pattern checks, on the history h of the instance *)

\* variant: diff2 taken the other way round
check_arithmetic_sequence_reversed(h, c) ==
    IF Len(h) < 2 THEN FALSE
    ELSE LET diff1 == h[Len(h)] - h[Len(h) - 1]
             diff2 == h[Len(h)] - c
         IN  diff1 = diff2

check_arithmetic_sequence(h, c) ==
    IF Len(h) < 2 THEN FALSE
    ELSE LET diff1 == h[Len(h)] - h[Len(h) - 1]
             diff2 == c - h[Len(h)]
         IN  diff1 = diff2

\* variant: history[0] read for history[-1]
check_repeating_sequence_oldest(h, c) ==
    Len(h) > 0 /\ c = h[1]

check_repeating_sequence(h, c) ==
    Len(h) > 0 /\ c = h[Len(h)]

\* variant: history[-3] read for history[-2]
check_alternating_sequence_three_back(h, c) ==
    IF Len(h) < 3 THEN FALSE
    ELSE c = h[Len(h) - 2]

\* variant: the candidate is looked up in history[-3:]
check_alternating_sequence_last_three(h, c) ==
    IF Len(h) < 2 THEN FALSE
    ELSE c \in { h[i] : i \in (Len(h) - Min(3, Len(h)) + 1)..(Len(h) - 1) }

check_alternating_sequence(h, c) ==
    IF Len(h) < 2 THEN FALSE
    ELSE c = h[Len(h) - 1]

\* the run-length encoding loop: the pairs (value, count) of sequence,
\* i being the loop index and count the running count
RECURSIVE rle(_, _, _)
rle(sequence, i, count) ==
    IF i > Len(sequence) THEN << <<Last(sequence), count>> >>
    ELSE IF sequence[i] = sequence[i - 1]
         THEN rle(sequence, i + 1, count + 1)
         ELSE << <<sequence[i - 1], count>> >> \o rle(sequence, i + 1, 1)

RECURSIVE PairsWeight(_)
PairsWeight(compressed) ==
    IF compressed = <<>> THEN 1
    ELSE Max(1, Abs(Head(compressed)[1])) * Head(compressed)[2]
         * PairsWeight(Tail(compressed))

\* variant: the window is history[-3:] and the candidate
description_weight_wider_window(h, c) ==
    LET sequence == LastN(h, 3) \o <<c>>
    IN  PairsWeight(rle(sequence, 2, 1))

\* compressed_description_length returns
\*   sum(log2(max(1, abs(num))) + log2(count)),
\* the log2 of the product of max(1, abs(num)) * count over the pairs;
\* the model carries that product, 2 ^ (the returned length)
description_weight(h, c) ==
    LET sequence == LastN(h, 2) \o <<c>>
    IN  PairsWeight(rle(sequence, 2, 1))

\* compressed_description_length(candidate) < 0.8 * log2(end - start + 1),
\* that is weight ^ 5 < (end - start + 1) ^ 4.  A weight that reaches the
\* range size is never below the threshold; below it, w * w ^ 4 < n ^ 4 is
\* w <= (n ^ 4 - 1) \div w ^ 4, which needs no number above n ^ 4
low_complexity(h, c, s, e) ==
    LET w == description_weight(h, c)
        n == e - s + 1
    IN  /\ w < n
        /\ w <= (Pow(n, ThresholdNum) - 1) \div Pow(w, ThresholdDen - 1)

\* variants: the checks start after two, or after four, entries
checks_pass(h, c, s, e) ==
    /\ ~check_arithmetic_sequence(h, c)
    /\ ~check_repeating_sequence(h, c)
    /\ ~check_alternating_sequence(h, c)
    /\ ~low_complexity(h, c, s, e)

is_random_enough_after_two(h, c, s, e) ==
    IF Len(h) < 2 THEN TRUE ELSE checks_pass(h, c, s, e)

is_random_enough_after_four(h, c, s, e) ==
    IF Len(h) < 4 THEN TRUE ELSE checks_pass(h, c, s, e)

\* variant: the alternation check is left out of the chain
is_random_enough_no_alternation(h, c, s, e) ==
    IF Len(h) < 3 THEN TRUE
    ELSE IF check_arithmetic_sequence(h, c) THEN FALSE
    ELSE IF check_repeating_sequence(h, c) THEN FALSE
    ELSE IF low_complexity(h, c, s, e) THEN FALSE
    ELSE TRUE

\* variant: a single-value range is accepted without the checks
is_random_enough_single_value_guard(h, c, s, e) ==
    IF Len(h) < 3 \/ s = e THEN TRUE ELSE checks_pass(h, c, s, e)

is_random_enough(h, c, s, e) ==
    IF Len(h) < 3 THEN TRUE
    ELSE IF check_arithmetic_sequence(h, c) THEN FALSE
    ELSE IF check_repeating_sequence(h, c) THEN FALSE
    ELSE IF check_alternating_sequence(h, c) THEN FALSE
    ELSE IF low_complexity(h, c, s, e) THEN FALSE
    ELSE TRUE

\* variant: pop() for pop(0)
update_history_pop_newest(h, number) ==
    LET appended == Append(h, number)
    IN  IF Len(appended) > max_history
        THEN SubSeq(appended, 1, Len(appended) - 1) ELSE appended

update_history(h, number) ==
    LET appended == Append(h, number)
    IN  IF Len(appended) > max_history THEN Tail(appended) ELSE appended

----------------------------------------------------------------------------
(* The generator instances *)

Gens == DOMAIN history

\* __init__ of n instances, all built from one seed and driven by one
\* caller script: empty history, a source that has produced nothing
Construct(n, sd, sc) ==
    /\ history   = [g \in 1..n |-> <<>>]
    /\ rng       = [g \in 1..n |-> 0]
    /\ pc        = [g \in 1..n |-> "idle"]
    /\ start     = [g \in 1..n |-> 0]
    /\ end       = [g \in 1..n |-> 0]
    /\ candidate = [g \in 1..n |-> 0]
    /\ draws     = [g \in 1..n |-> 0]
    /\ result    = [g \in 1..n |-> 0]
    /\ hist0     = [g \in 1..n |-> <<>>]
    /\ outputs   = [g \in 1..n |-> <<>>]
    /\ served    = [g \in 1..n |-> 0]
    /\ seed      = sd
    /\ script    = sc

\* variant: one source shared by every instance (the module's random)
random_shared(g) == 1

\* the uniform source instance g draws from: its own self.random
random_of(g) == g

\* variant: the exception is caught and the loop goes on
after_raise_retry == "loop"

\* where a call is once randint has raised: nothing in random_number
\* catches the exception, so the call is over
after_raise == "raised"

\* the raw draws the source of g may produce next: the seed's stream fixes
\* it; an unseeded source may produce any
NextRaw(g, s, e) ==
    IF seed = <<>> THEN 0 .. (e - s)
    ELSE IF rng[random_of(g)] < Len(seed) THEN { seed[rng[random_of(g)] + 1] }
    ELSE {}

\* the caller enters random_number(s, e) on g
Call(g) ==
    /\ pc[g] # "loop"
    /\ \E r \in (IF script = <<>>
                 THEN IF Len(outputs[g]) < MaxCalls THEN Ranges ELSE {}
                 ELSE IF served[g] < Len(script)
                      THEN { script[served[g] + 1] } ELSE {}) :
          /\ start' = [start EXCEPT ![g] = r[1]]
          /\ end'   = [end EXCEPT ![g] = r[2]]
    /\ pc'     = [pc EXCEPT ![g] = "loop"]
    /\ draws'  = [draws EXCEPT ![g] = 0]
    /\ hist0'  = [hist0 EXCEPT ![g] = history[g]]
    /\ served' = [served EXCEPT ![g] = IF script = <<>> THEN 0 ELSE @ + 1]
    /\ UNCHANGED <<history, rng, candidate, result, outputs, seed, script>>

\* variant: a rejected candidate is appended to the history as well
Draw_stores_rejected(g) ==
    /\ pc[g] = "loop"
    /\ draws' = [draws EXCEPT ![g] = Min(@ + 1, MaxDraws)]
    /\ IF start[g] > end[g]
       THEN /\ pc' = [pc EXCEPT ![g] = after_raise]
            /\ UNCHANGED <<history, rng, candidate, result, outputs>>
       ELSE \E raw \in NextRaw(g, start[g], end[g]) :
              LET c == randint(raw, start[g], end[g]) IN
              /\ candidate' = [candidate EXCEPT ![g] = c]
              /\ rng' = [rng EXCEPT ![random_of(g)] =
                           IF seed = <<>> THEN @ ELSE @ + 1]
              /\ history' = [history EXCEPT ![g] = update_history(@, c)]
              /\ IF is_random_enough(history[g], c, start[g], end[g])
                 THEN /\ outputs' = [outputs EXCEPT ![g] =
                            Append(@, [val |-> c, hlen |-> Len(history[g])])]
                      /\ result' = [result EXCEPT ![g] = c]
                      /\ pc' = [pc EXCEPT ![g] = "returned"]
                 ELSE UNCHANGED <<outputs, result, pc>>
    /\ UNCHANGED <<start, end, hist0, served, seed, script>>

\* one iteration of the while loop of random_number: randint raises on an
\* empty range (the exception leaves random_number); otherwise the
\* candidate is drawn, evaluated, and either recorded and returned or
\* dropped
Draw(g) ==
    /\ pc[g] = "loop"
    /\ draws' = [draws EXCEPT ![g] = Min(@ + 1, MaxDraws)]
    /\ IF start[g] > end[g]
       THEN /\ pc' = [pc EXCEPT ![g] = after_raise]
            /\ UNCHANGED <<history, rng, candidate, result, outputs>>
       ELSE \E raw \in NextRaw(g, start[g], end[g]) :
              LET c == randint(raw, start[g], end[g]) IN
              /\ candidate' = [candidate EXCEPT ![g] = c]
              /\ rng' = [rng EXCEPT ![random_of(g)] =
                           IF seed = <<>> THEN @ ELSE @ + 1]
              /\ IF is_random_enough(history[g], c, start[g], end[g])
                 THEN /\ history' = [history EXCEPT
                                       ![g] = update_history(@, c)]
                      /\ outputs' = [outputs EXCEPT ![g] =
                            Append(@, [val |-> c, hlen |-> Len(history[g])])]
                      /\ result' = [result EXCEPT ![g] = c]
                      /\ pc' = [pc EXCEPT ![g] = "returned"]
                 ELSE UNCHANGED <<history, outputs, result, pc>>
    /\ UNCHANGED <<start, end, hist0, served, seed, script>>

Next ==
    \/ \E g \in Gens : Call(g)
    \/ \E g \in Gens : Draw(g)

----------------------------------------------------------------------------
(* Specifications *)

\* random.Random(k): the draw stream of seed k, a fixed pseudo-random
\* sequence of raw draws (a stand-in for the generator of the library;
\* nothing below depends on which sequence a seed gives)
seed_stream(k) == [i \in 1..SeededDraws |-> (k * i * i + 7 * i) % 100]

\* the caller of the usage example: random_number(1, 100), call after call
demo_script == [i \in 1..SeededCalls |-> <<1, 100>>]

\* one generator: unseeded and called with any of Ranges, or seeded and
\* called as the usage example calls it
Init ==
    \/ Construct(1, <<>>, <<>>)
    \/ \E k \in 1..NumSeeds : Construct(1, seed_stream(k), demo_script)

Spec == Init /\ [][Next]_vars

\* the ranges and the scripts of the callers of the paired generators:
\* two ranges, asked in turn
PairRanges == { <<1, 4>>, <<2, 5>> }

pair_script(r1, r2) == [i \in 1..PairCalls |-> IF i % 2 = 1 THEN r1 ELSE r2]

\* two generators built from the same seed, whose stream may be any
\* sequence of PairDraws raw draws, and given the same requests
InitPair ==
    \E sd \in [1..PairDraws -> 0..3] :
      \E r1 \in PairRanges, r2 \in PairRanges :
        Construct(2, sd, pair_script(r1, r2))

SpecPair == InitPair /\ [][Next]_vars

\* the ranges of the generators used with one small range only:
\* single-value ranges, ranges of two and of three integers
FixedRanges ==
    { <<5, 5>>, <<0, 0>>, <<1, 2>>, <<0, 1>>, <<1, 3>>, <<0, 2>>, <<-1, 1>>,
      <<5, 7>> }

fixed_script(r) == [i \in 1..FixedCalls |-> r]

\* one unseeded generator, called FixedCalls times with one range
InitFixed == \E r \in FixedRanges : Construct(1, <<>>, fixed_script(r))

SpecFixed == InitFixed /\ [][Next]_vars

\* the ranges [1, n], n >= 4, of the generators used with one ordinary
\* range only
LiveRanges == { <<1, 4>>, <<1, 5>> }

live_script(r) == [i \in 1..LiveCalls |-> r]

\* one unseeded generator, called LiveCalls times with one range [1, n]
InitLive == \E r \in LiveRanges : Construct(1, <<>>, live_script(r))

\* a Draw step of g whose draw is accepted
ReturningDraw(g) == Draw(g) /\ pc'[g] = "returned"

\* the loop of a call in progress keeps iterating, and the uniform source
\* keeps producing every value of the range: as long as some value of the
\* range would be accepted, such a value is drawn in the end
FairLive ==
    /\ InitLive
    /\ [][Next]_vars
    /\ WF_vars(ReturningDraw(1))

----------------------------------------------------------------------------
(* Properties *)

Val(g, k) == outputs[g][k].val

Vals(g) == [k \in 1..Len(outputs[g]) |-> outputs[g][k].val]

InRange(v, g) == start[g] <= v /\ v <= end[g]

\* C1: a call random_number(start, end) with start <= end that has returned
\* returned a value v with start <= v <= end, the value it recorded,
\* whatever the history earlier calls left.
C1_RangeContainment ==
    \A g \in Gens :
        (pc[g] = "returned" /\ start[g] <= end[g])
        => /\ InRange(result[g], g)
           /\ Last(outputs[g]).val = result[g]

\* a call has returned on a history of three or more values that holds a
\* value outside the call's range
C1_Witness ==
    \E g \in Gens :
        /\ pc[g] = "returned"
        /\ Len(hist0[g]) >= 3
        /\ \E i \in 1..Len(hist0[g]) : ~InRange(hist0[g][i], g)

\* C2: an output c evaluated against a history of at least 3 entries never
\* continues the difference of the two outputs a, b accepted before it:
\* c - b # b - a.
C2_NoProgression ==
    \A g \in Gens :
        \A k \in 3..Len(outputs[g]) :
            outputs[g][k].hlen >= 3
            => Val(g, k) - Val(g, k - 1) # Val(g, k - 1) - Val(g, k - 2)

\* a call has returned after a rejected draw, on a history whose last two
\* values differ and whose progression continues inside the call's range
C2_Witness ==
    \E g \in Gens :
        /\ pc[g] = "returned"
        /\ Len(hist0[g]) >= 3
        /\ draws[g] >= 2
        /\ LET b == hist0[g][Len(hist0[g])]
               a == hist0[g][Len(hist0[g]) - 1]
           IN  a # b /\ InRange(2 * b - a, g)

\* C3, as stated: the third output of a generator has passed the
\* progression, repeat and alternation checks against the first two.
C3_FirstThreeChecked ==
    \A g \in Gens :
        Len(outputs[g]) >= 3
        => /\ Val(g, 3) - Val(g, 2) # Val(g, 2) - Val(g, 1)
           /\ Val(g, 3) # Val(g, 2)
           /\ Val(g, 3) # Val(g, 1)

\* C3, amended: the outputs accepted without a check are exactly the first
\* three of a generator (history length 0, 1, 2); the fourth output and
\* every later one continues no progression, repeats neither of the two
\* outputs before it.
C3_FourthOnwardChecked ==
    \A g \in Gens :
        /\ \A k \in 1..Len(outputs[g]) : outputs[g][k].hlen < 3 <=> k <= 3
        /\ \A k \in 4..Len(outputs[g]) :
              /\ Val(g, k) - Val(g, k - 1) # Val(g, k - 1) - Val(g, k - 2)
              /\ Val(g, k) # Val(g, k - 1)
              /\ Val(g, k) # Val(g, k - 2)

\* the first three outputs are one value three times, and a fourth output
\* has followed
C3_Witness ==
    \E g \in Gens :
        /\ Len(outputs[g]) >= 4
        /\ Val(g, 1) = Val(g, 2)
        /\ Val(g, 2) = Val(g, 3)

\* C4: an output evaluated against a history of at least 3 entries differs
\* from the output before it; from the fourth output on, no two
\* consecutive outputs are equal.
C4_NoImmediateRepeat ==
    \A g \in Gens :
        \A k \in 2..Len(outputs[g]) :
            (outputs[g][k].hlen >= 3 \/ k >= 4)
            => Val(g, k) # Val(g, k - 1)

\* a call has returned after a rejected draw, on a history whose last
\* value is in the call's range and is not its last but one
C4_Witness ==
    \E g \in Gens :
        /\ pc[g] = "returned"
        /\ Len(hist0[g]) >= 3
        /\ draws[g] >= 2
        /\ InRange(Last(hist0[g]), g)
        /\ Last(hist0[g]) # hist0[g][Len(hist0[g]) - 1]

\* C5: an output evaluated against a history of at least 3 entries differs
\* from the output two positions before it.
C5_NoAlternation ==
    \A g \in Gens :
        \A k \in 3..Len(outputs[g]) :
            outputs[g][k].hlen >= 3
            => Val(g, k) # Val(g, k - 2)

\* a call has returned after a rejected draw, on a history whose last but
\* one value is in the call's range and differs from the last
C5_Witness ==
    \E g \in Gens :
        /\ pc[g] = "returned"
        /\ Len(hist0[g]) >= 3
        /\ draws[g] >= 2
        /\ InRange(hist0[g][Len(hist0[g]) - 1], g)
        /\ Last(hist0[g]) # hist0[g][Len(hist0[g]) - 1]
        /\ Len(outputs[g]) >= 5

\* C6: history is the last min(N, max_history) of the N outputs, in the
\* order they were accepted, oldest first; its length never exceeds
\* max_history.
C6_BoundedFifoHistory ==
    \A g \in Gens :
        /\ Len(history[g]) <= max_history
        /\ Len(history[g]) = Min(Len(outputs[g]), max_history)
        /\ history[g] = LastN(Vals(g), max_history)

\* more outputs than max_history + 1: an accept at capacity has evicted
C6_Witness ==
    \E g \in Gens :
        /\ Len(outputs[g]) >= max_history + 2
        /\ Len(history[g]) = max_history
        /\ pc[g] = "returned"

\* C7: a step of a call random_number(start, end) with start > end is the
\* call's first draw attempt and ends the call with the error: no value is
\* returned or recorded, the source is not advanced, and history stays as
\* it was when the call began.
C7_InvalidRangeRaises ==
    [][\A g \in Gens :
          (pc[g] = "loop" /\ start[g] > end[g])
          => \/ UNCHANGED vars
             \/ /\ draws[g] = 0
                /\ draws'[g] = 1
                /\ pc'[g] = "raised"
                /\ history[g] = hist0[g]
                /\ history'[g] = hist0[g]
                /\ outputs'[g] = outputs[g]
                /\ result'[g] = result[g]
                /\ rng'[g] = rng[g]]_vars

\* a call with start > end has raised on a generator that had outputs
C7_Witness ==
    \E g \in Gens :
        /\ pc[g] = "raised"
        /\ start[g] > end[g]
        /\ draws[g] = 1
        /\ Len(history[g]) >= 1
        /\ history[g] = hist0[g]

\* C8, as stated, for a generator that has only ever returned v: a call
\* random_number(v, v) returns, and returns v: while it runs, its only
\* possible candidate v is accepted, and once it has returned its result
\* is v.
C8_DegenerateRangeReturns ==
    \A g \in Gens :
        (start[g] = end[g] /\ \A k \in 1..Len(outputs[g]) : Val(g, k) = start[g])
        => /\ pc[g] = "loop"
              => is_random_enough(history[g], start[g], start[g], end[g])
           /\ pc[g] = "returned" => result[g] = start[g]

\* C9: two generators built from the same seed and given the same requests
\* agree on every output both have produced; when both are between calls
\* after the same number of calls they have consumed the same number of
\* draws and hold the same history.
C9_Determinism ==
    \A g \in Gens, h \in Gens :
        /\ \A k \in 1..Min(Len(outputs[g]), Len(outputs[h])) :
              outputs[g][k] = outputs[h][k]
        /\ (pc[g] # "loop" /\ pc[h] # "loop" /\ served[g] = served[h])
           => /\ outputs[g] = outputs[h]
              /\ history[g] = history[h]
              /\ rng[g] = rng[h]
              /\ pc[g] = pc[h]

\* both generators have returned from their fourth call, a draw having
\* been rejected on the way
C9_Witness ==
    \E g \in Gens, h \in Gens :
        /\ g # h
        /\ pc[g] = "returned" /\ pc[h] = "returned"
        /\ served[g] = 4 /\ served[h] = 4
        /\ rng[g] > 4

\* C10: a call with start <= end that began on a history of fewer than 3
\* entries makes exactly one draw and returns it: no draw of such a call is
\* rejected.
C10_UnconditionalAccept ==
    \A g \in Gens :
        (start[g] <= end[g] /\ Len(hist0[g]) < 3)
        => /\ pc[g] = "loop" => draws[g] = 0
           /\ pc[g] = "returned"
              => /\ draws[g] = 1
                 /\ result[g] = candidate[g]
                 /\ Last(outputs[g]) =
                        [val |-> candidate[g], hlen |-> Len(hist0[g])]

\* the first three outputs of a generator are a progression of non-zero
\* step
C10_Witness ==
    \E g \in Gens :
        /\ Len(outputs[g]) = 3
        /\ pc[g] = "returned"
        /\ Val(g, 2) # Val(g, 1)
        /\ Val(g, 3) - Val(g, 2) = Val(g, 2) - Val(g, 1)

\* h with v appended, the oldest entry leaving when h is at capacity
AppendEvict(h, v) ==
    IF Len(h) < max_history THEN Append(h, v) ELSE Tail(h) \o <<v>>

\* C11: history is empty at construction; a step that is not the return of
\* a call (a call's entry, a rejected draw, a raised error) leaves history
\* as it is, so a rejected candidate is never stored; the return of a call
\* changes history by exactly one append of the returned value, the oldest
\* entry leaving when history was at capacity.
C11_HistoryFrame ==
    /\ \A g \in {1} : history[g] = <<>>
    /\ [][\A g \in Gens :
            IF pc[g] = "loop" /\ pc'[g] = "returned"
            THEN /\ result'[g] = candidate'[g]
                 /\ history'[g] = AppendEvict(history[g], result'[g])
                 /\ outputs'[g] = Append(outputs[g],
                        [val |-> result'[g], hlen |-> Len(history[g])])
            ELSE /\ history'[g] = history[g]
                 /\ outputs'[g] = outputs[g]]_vars

\* a call has returned after a rejected draw: history is the history of
\* the call's entry and the returned value, the rejected one is not in it
C11_Witness ==
    \E g \in Gens :
        /\ pc[g] = "returned"
        /\ draws[g] >= 2
        /\ Len(hist0[g]) >= 3
        /\ history[g] = Append(hist0[g], result[g])
        /\ start[g] < end[g]

\* the call in progress on g can return no value of its range
Stuck(g) ==
    /\ pc[g] = "loop"
    /\ start[g] <= end[g]
    /\ \A c \in start[g]..end[g] :
          ~is_random_enough(history[g], c, start[g], end[g])

\* C12: on a generator used only with a range start = end = v, each of the
\* first three calls returns v on its first draw; the fourth call never
\* returns: every draw of it is rejected and history stays <<v, v, v>>.
C12_SingleValueLivelock ==
    \A g \in Gens :
        (start[g] = end[g] /\ pc[g] # "idle")
        => /\ \A k \in 1..Len(outputs[g]) : Val(g, k) = start[g]
           /\ served[g] <= 3
              => /\ pc[g] = "loop" => draws[g] = 0
                 /\ pc[g] = "returned"
                    => draws[g] = 1 /\ Len(outputs[g]) = served[g]
           /\ served[g] >= 4
              => /\ served[g] = 4
                 /\ Stuck(g)
                 /\ history[g] = <<start[g], start[g], start[g]>>
                 /\ Len(outputs[g]) = 3

\* the fourth call on a single-value range has had draws rejected, up to
\* where the draws counter stops, and is still in its loop
C12_Witness ==
    \E g \in Gens :
        /\ start[g] = end[g]
        /\ served[g] = 4
        /\ pc[g] = "loop"
        /\ draws[g] >= 2
        /\ candidate[g] = start[g]

\* C15: a generator used only with one range of at most 3 integers returns
\* from at most 6 calls: a seventh call, when the caller gets that far, can
\* return no value of the range (and no call after it is ever made).
C15_SmallRangeHangs ==
    \A g \in Gens :
        (pc[g] # "idle" /\ start[g] <= end[g] /\ end[g] - start[g] <= 2)
        => /\ Len(outputs[g]) <= 6
           /\ served[g] <= 7
           /\ served[g] = 7 => Stuck(g)
           /\ pc[g] = "returned" => Len(outputs[g]) = served[g]

\* the seventh call on a range of three integers, six calls having
\* returned, has had a draw rejected
C15_Witness ==
    \E g \in Gens :
        /\ end[g] - start[g] = 2
        /\ served[g] = 7
        /\ Len(outputs[g]) = 6
        /\ draws[g] >= 1
        /\ Stuck(g)

\* C16: on a generator used only with one range [1, n], n >= 4, a call in
\* progress always has a value of the range that passes is_random_enough,
\* and, the source producing every value of the range again and again,
\* every call returns.
C16_NoLivelock ==
    /\ [](\A g \in {1} : (start[g] = 1 /\ end[g] >= 4) => ~Stuck(g))
    /\ \A g \in {1} :
          (pc[g] = "loop" /\ start[g] = 1 /\ end[g] >= 4)
              ~> (pc[g] = "returned")

\* a call on a range [1, n], n >= 4, made on a history of four values, has
\* returned after rejected draws
C16_Witness ==
    \E g \in Gens :
        /\ start[g] = 1 /\ end[g] >= 4
        /\ pc[g] = "returned"
        /\ Len(hist0[g]) >= 4
        /\ draws[g] >= 3

\* the four predicates, by number: arithmetic continuation, immediate
\* repeat, alternation, low compressed length
Holds(p, h, c, s, e) ==
    CASE p = 1 -> check_arithmetic_sequence(h, c)
      [] p = 2 -> check_repeating_sequence(h, c)
      [] p = 3 -> check_alternating_sequence(h, c)
      [] p = 4 -> low_complexity(h, c, s, e)

\* the predicates, of values holds[1..4], evaluated one after the other
\* in the order given, the first that holds rejecting
RECURSIVE AcceptInOrder(_, _)
AcceptInOrder(order, holds) ==
    IF order = <<>> THEN TRUE
    ELSE IF holds[Head(order)] THEN FALSE
    ELSE AcceptInOrder(Tail(order), holds)

Orders == { o \in [1..4 -> 1..4] : \A i, j \in 1..4 : o[i] = o[j] => i = j }

\* C13: against a history of at least 3 entries, is_random_enough accepts
\* a candidate of the range exactly when none of the four predicates
\* holds, and the predicates evaluated in any order give that same result
\* (stated where a call begins: its history and range stay the same for
\* all its draws).
C13_OrderIndependence ==
    \A g \in Gens :
        (pc[g] = "loop" /\ draws[g] = 0
            /\ Len(history[g]) >= 3 /\ start[g] <= end[g])
        => \A c \in start[g]..end[g] :
              LET h == history[g]
                  accepted == is_random_enough(h, c, start[g], end[g])
                  holds == [p \in 1..4 |-> Holds(p, h, c, start[g], end[g])]
              IN  /\ accepted <=> \A p \in 1..4 : ~holds[p]
                  /\ \A o \in Orders : accepted <=> AcceptInOrder(o, holds)

\* a call in progress on a history of three or more: one value of its
\* range makes the first and the last predicate of the chain hold at once,
\* another makes only the last hold, another is accepted
C13_Witness ==
    \E g \in Gens :
        /\ pc[g] = "loop" /\ Len(history[g]) >= 3 /\ start[g] <= end[g]
        /\ \E c \in start[g]..end[g] :
              /\ check_arithmetic_sequence(history[g], c)
              /\ low_complexity(history[g], c, start[g], end[g])
        /\ \E c \in start[g]..end[g] :
              /\ low_complexity(history[g], c, start[g], end[g])
              /\ \A p \in 1..3 :
                    ~Holds(p, history[g], c, start[g], end[g])
        /\ \E c \in start[g]..end[g] :
              is_random_enough(history[g], c, start[g], end[g])

\* max(1, abs(v))
Magnitude(v) == Max(1, Abs(v))

\* 2 ^ score of the window <<a, b, c>>: the product, over its runs, of the
\* magnitude of the run's value and the length of the run
WindowWeight(a, b, c) ==
    IF a = b /\ b = c THEN Magnitude(a) * 3
    ELSE IF a = b THEN Magnitude(a) * 2 * Magnitude(c)
    ELSE IF b = c THEN Magnitude(a) * Magnitude(b) * 2
    ELSE Magnitude(a) * Magnitude(b) * Magnitude(c)

\* w ^ 5 >= n ^ 4, that is log2(w) >= 0.8 * log2(n)
ReachesThreshold(w, n) ==
    w >= n \/ w > (Pow(n, 4) - 1) \div Pow(w, 4)

\* C14: a value c returned by a call random_number(start, end) that began
\* on a history of at least 3 entries, a and b being the last two of them,
\* has a window <<a, b, c>> of score >= 0.8 * log2(end - start + 1); when
\* a # b that is
\* (max(1,|a|) * max(1,|b|) * max(1,|c|)) ^ 5 >= (end - start + 1) ^ 4.
C14_LowComplexityRejected ==
    \A g \in Gens :
        (pc[g] = "returned" /\ Len(hist0[g]) >= 3)
        => LET a == hist0[g][Len(hist0[g]) - 1]
               b == hist0[g][Len(hist0[g])]
               c == result[g]
               n == end[g] - start[g] + 1
           IN  /\ ReachesThreshold(WindowWeight(a, b, c), n)
               /\ a # b => ReachesThreshold(
                     Magnitude(a) * Magnitude(b) * Magnitude(c), n)

\* a call has returned after a rejected draw, on a history whose last two
\* values differ and for which some value of the range fails the
\* complexity test alone
C14_Witness ==
    \E g \in Gens :
        /\ pc[g] = "returned"
        /\ Len(hist0[g]) >= 3
        /\ draws[g] >= 2
        /\ hist0[g][Len(hist0[g])] # hist0[g][Len(hist0[g]) - 1]
        /\ \E c \in start[g]..end[g] :
              /\ low_complexity(hist0[g], c, start[g], end[g])
              /\ \A p \in 1..3 : ~Holds(p, hist0[g], c, start[g], end[g])

====
